---------------------------- MODULE Spec2Model ----------------------------
(***************************************************************************)
(* A model of spellfix.py: the protect / local rewrite / chunk / patch /   *)
(* unprotect pipeline of main().                                           *)
(*                                                                         *)
(* A text is a sequence of Unicode code points (Python str).  The model's  *)
(* alphabet is ASCII plus U+E000, the placeholder marker.  A position is a *)
(* 1-based index; a regular-expression operator X_RE(s, i) is the          *)
(* exclusive end of the match Python's backtracking matcher finds for the  *)
(* pattern anchored at position i, or 0 when the pattern does not match    *)
(* there.  No pattern of the program matches the empty string.             *)
(***************************************************************************)
EXTENDS Integers, Sequences, FiniteSets, TLC

(***************************************************************************)
(* Code points and character classes.                                      *)
(***************************************************************************)
PUA == 57344            \* U+E000, the marker of PLACEHOLDER_FMT
TAB == 9
LF == 10
SPACE == 32
DQUOTE == 34
LPAREN == 40
RPAREN == 41
PERCENT == 37
PLUS == 43
COMMA == 44
HYPHEN == 45
DOT == 46
SLASH == 47
COLON == 58
SEMI == 59
LT == 60
GT == 62
QMARK == 63
BANG == 33
ATSIGN == 64
BACKSLASH == 92
UNDERSCORE == 95
TILDE == 126
NoChar == 0 - 1         \* what lies before the first and after the last character

IsDigit(c) == c \in 48..57
IsUpper(c) == c \in 65..90
IsLower(c) == c \in 97..122
IsAlpha(c) == IsUpper(c) \/ IsLower(c)
IsAlnum(c) == IsAlpha(c) \/ IsDigit(c)
\* \w on the model's alphabet
IsWord(c) == IsAlnum(c) \/ c = UNDERSCORE
\* \s of a str pattern
IsSpace(c) ==
    \/ c \in 9..13
    \/ c \in 28..32
    \/ c \in {133, 160, 5760, 8232, 8233, 8239, 8287, 12288}
    \/ c \in 8192..8202
\* [,.;:!?]
IsPunct(c) == c \in {COMMA, DOT, SEMI, COLON, BANG, QMARK}
Lower(c) == IF IsUpper(c) THEN c + 32 ELSE c
Upper(c) == IF IsLower(c) THEN c - 32 ELSE c

(***************************************************************************)
(* Sequence helpers.                                                       *)
(***************************************************************************)
Min(S) == CHOOSE x \in S : \A y \in S : x <= y
Max(S) == CHOOSE x \in S : \A y \in S : x >= y

At(s, i) == IF i \in 1..Len(s) THEN s[i] ELSE NoChar

\* s[i .. e-1], positions 1-based, e exclusive
Sub(s, i, e) == IF e <= i THEN <<>> ELSE [k \in 1..(e - i) |-> s[i + k - 1]]

LowerStr(s) == [k \in 1..Len(s) |-> Lower(s[k])]

\* the literal w occurs in s at position i
LitAt(s, i, w) == /\ i >= 1
                  /\ i + Len(w) - 1 <= Len(s)
                  /\ \A k \in 1..Len(w) : s[i + k - 1] = w[k]

\* the same, ignoring case (re.IGNORECASE on the model's alphabet)
LitAtNoCase(s, i, w) == /\ i >= 1
                        /\ i + Len(w) - 1 <= Len(s)
                        /\ \A k \in 1..Len(w) : Lower(s[i + k - 1]) = Lower(w[k])

\* exclusive end of the longest run of characters satisfying P that starts at i
RunEnd(P(_), s, i) ==
    LET stops == {j \in i..Len(s) : ~P(s[j])}
    IN  IF stops = {} THEN Len(s) + 1 ELSE Min(stops)

\* \b before position i (i = Len(s) + 1: at the end of the text)
Boundary(s, i) == IsWord(At(s, i - 1)) # IsWord(At(s, i))

RECURSIVE Concat(_)
Concat(ss) == IF ss = <<>> THEN <<>> ELSE Head(ss) \o Concat(Tail(ss))

\* Python's slice s[a:b] with its negative-index and clamping rules, a and b
\* 0-based
PyIndex(n, a) == IF a < 0 THEN (IF a + n < 0 THEN 0 ELSE a + n)
                 ELSE IF a > n THEN n ELSE a
PySlice(s, a, b) == Sub(s, PyIndex(Len(s), a) + 1, PyIndex(Len(s), b) + 1)

\* pattern.sub(repl, s): the non-overlapping matches of M, leftmost first,
\* each replaced by R(s, i, e)
ReSub(M(_, _), R(_, _, _), s) ==
    LET RECURSIVE go(_)
        go(i) == IF i > Len(s) THEN <<>>
                 ELSE LET e == M(s, i)
                      IN  IF e > i THEN R(s, i, e) \o go(e)
                          ELSE <<s[i]>> \o go(i + 1)
    IN  go(1)

\* the matches <<i, e>> that pattern.sub visits, in order
ReMatches(M(_, _), s) ==
    LET RECURSIVE go(_)
        go(i) == IF i > Len(s) THEN <<>>
                 ELSE LET e == M(s, i)
                      IN  IF e > i THEN <<<<i, e>>>> \o go(e)
                          ELSE go(i + 1)
    IN  go(1)

(***************************************************************************)
(* The patterns.                                                           *)
(***************************************************************************)
BRANDS == << <<83, 112, 101, 108, 108, 70, 105, 120>> >>     \* ["SpellFix"]

\* \b(?:SpellFix)\b, IGNORECASE
BRAND_RE(s, i) ==
    LET hits == {b \in 1..Len(BRANDS) :
                    /\ Boundary(s, i)
                    /\ LitAtNoCase(s, i, BRANDS[b])
                    /\ Boundary(s, i + Len(BRANDS[b]))}
    IN  IF hits = {} THEN 0 ELSE i + Len(BRANDS[Min(hits)])

\* [^\s<>()"]
IsUrlChar(c) == ~IsSpace(c) /\ c \notin {LT, GT, LPAREN, RPAREN, DQUOTE}
HTTP == <<104, 116, 116, 112>>
SCHEME_SEP == <<COLON, SLASH, SLASH>>
FTP == <<102, 116, 112, COLON, SLASH, SLASH>>
WWW == <<119, 119, 119, DOT>>

\* \b(?:https?://|ftp://|www\.)[^\s<>()"]+, IGNORECASE
URL_RE(s, i) ==
    LET p == IF LitAtNoCase(s, i, HTTP \o <<115>> \o SCHEME_SEP) THEN i + 8
             ELSE IF LitAtNoCase(s, i, HTTP \o SCHEME_SEP) THEN i + 7
             ELSE IF LitAtNoCase(s, i, FTP) THEN i + 6
             ELSE IF LitAtNoCase(s, i, WWW) THEN i + 4
             ELSE 0
        e == RunEnd(IsUrlChar, s, p)
    IN  IF Boundary(s, i) /\ p > 0 /\ e > p THEN e ELSE 0

\* [A-Z0-9._%+-] and [A-Z0-9.-], IGNORECASE
IsEmailLocal(c) == IsAlnum(c) \/ c \in {DOT, UNDERSCORE, PERCENT, PLUS, HYPHEN}
IsEmailDomain(c) == IsAlnum(c) \/ c \in {DOT, HYPHEN}

\* \b[A-Z0-9._%+-]+@[A-Z0-9.-]+\.[A-Z]{2,}\b, IGNORECASE
\* The local part is the whole run before "@".  The domain run is taken
\* greedily and given back one character at a time until a "." follows that
\* starts a run of two or more letters ending at a word boundary.
EMAIL_RE(s, i) ==
    LET a  == RunEnd(IsEmailLocal, s, i)
        d  == RunEnd(IsEmailDomain, s, a + 1)
        ok == {p \in (a + 2)..(d - 1) :
                  /\ s[p] = DOT
                  /\ RunEnd(IsAlpha, s, p + 1) >= p + 3
                  /\ Boundary(s, RunEnd(IsAlpha, s, p + 1))}
    IN  IF /\ Boundary(s, i)
           /\ a > i
           /\ At(s, a) = ATSIGN
           /\ ok # {}
        THEN RunEnd(IsAlpha, s, Max(ok) + 1)
        ELSE 0

NotSpace(c) == ~IsSpace(c)

\* (?:(?:~|/)[^\s]+)|(?:[A-Za-z]:\\[^\s]+)
PATH_RE(s, i) ==
    IF At(s, i) \in {TILDE, SLASH} /\ RunEnd(NotSpace, s, i + 1) > i + 1
    THEN RunEnd(NotSpace, s, i + 1)
    ELSE IF /\ IsAlpha(At(s, i))
            /\ At(s, i + 1) = COLON
            /\ At(s, i + 2) = BACKSLASH
            /\ i + 3 <= Len(s) + 1
            /\ RunEnd(NotSpace, s, i + 3) > i + 3
         THEN RunEnd(NotSpace, s, i + 3)
         ELSE 0

\* [A-Za-z0-9-]
IsFlagChar(c) == IsAlnum(c) \/ c = HYPHEN

\* \B--?[A-Za-z][A-Za-z0-9-]*\b
\* The tail run is taken greedily and given back until a word boundary.
FLAG_RE(s, i) ==
    LET p  == IF At(s, i + 1) = HYPHEN THEN i + 2 ELSE i + 1   \* the letter
        t  == RunEnd(IsFlagChar, s, p + 1)
        ok == {e \in (p + 1)..t : Boundary(s, e)}
    IN  IF /\ ~Boundary(s, i)
           /\ At(s, i) = HYPHEN
           /\ IsAlpha(At(s, p))
           /\ ok # {}
        THEN Max(ok)
        ELSE 0

\* [A-Za-z_]
IsIdentStart(c) == IsAlpha(c) \/ c = UNDERSCORE
\* [_0-9A-Z]
IsCodeLike(c) == c = UNDERSCORE \/ IsDigit(c) \/ IsUpper(c)
NotNewline(c) == c # LF

\* (?=.*[_0-9A-Z]) at position e: a code-like character on the rest of the
\* line that starts at e
CodeLikeAhead(s, e) ==
    \E j \in e..(RunEnd(NotNewline, s, e) - 1) : IsCodeLike(s[j])

\* exclusive ends of the identifiers of the longest chain
\* ident "." ident "." ... that starts at i; an identifier is a whole run of
\* [A-Za-z0-9_] that starts with [A-Za-z_]
RECURSIVE IdentChain(_, _)
IdentChain(s, i) ==
    IF ~IsIdentStart(At(s, i)) THEN <<>>
    ELSE LET e == RunEnd(IsWord, s, i)
         IN  IF At(s, e) = DOT THEN <<e>> \o IdentChain(s, e + 1) ELSE <<e>>

\* \b(?=[A-Za-z_])(?:[A-Za-z_][A-Za-z0-9_]*\.)+[A-Za-z_][A-Za-z0-9_]*\b(?=.*[_0-9A-Z])
\* The chain is taken greedily and given back one identifier at a time until
\* the lookahead after it succeeds; at least two identifiers remain.
DOT_IDENT_RE(s, i) ==
    LET ch == IdentChain(s, i)
        ok == {k \in 2..Len(ch) : CodeLikeAhead(s, ch[k])}
    IN  IF Boundary(s, i) /\ ok # {} THEN ch[Max(ok)] ELSE 0

\* \b[a-z]+[A-Z][A-Za-z0-9]*\b
CAMEL_RE(s, i) ==
    LET a == RunEnd(IsLower, s, i)
        e == RunEnd(IsAlnum, s, a + 1)
    IN  IF /\ Boundary(s, i)
           /\ a > i
           /\ IsUpper(At(s, a))
           /\ Boundary(s, e)
        THEN e
        ELSE 0

\* exclusive ends of the groups (?:c[A-Za-z0-9]+) of the longest chain that
\* starts at i, c the joining character
RECURSIVE JoinChain(_, _, _)
JoinChain(s, i, c) ==
    IF At(s, i) = c /\ IsAlnum(At(s, i + 1))
    THEN LET e == RunEnd(IsAlnum, s, i + 1)
         IN  <<e>> \o JoinChain(s, e, c)
    ELSE <<>>

\* \b[A-Za-z0-9]+(?:c[A-Za-z0-9]+)+\b with c = "_" or "-": groups are given
\* back until a word boundary follows
JoinedEnd(s, i, c) ==
    LET a  == RunEnd(IsAlnum, s, i)
        ch == JoinChain(s, a, c)
        ok == {k \in 1..Len(ch) : Boundary(s, ch[k])}
    IN  IF Boundary(s, i) /\ a > i /\ ok # {} THEN ch[Max(ok)] ELSE 0

\* \b[A-Za-z0-9]+(?:_[A-Za-z0-9]+)+\b
SNAKE_RE(s, i) == JoinedEnd(s, i, UNDERSCORE)

\* \b[A-Za-z0-9]+(?:-[A-Za-z0-9]+)+\b
KEBAB_RE(s, i) == JoinedEnd(s, i, HYPHEN)

\* [ \t]{2,}
IsBlank(c) == c \in {SPACE, TAB}
MULTISPACE_RE(s, i) ==
    LET e == RunEnd(IsBlank, s, i) IN IF e >= i + 2 THEN e ELSE 0

\* \s([,.;:!?]): one whitespace character only
SpaceBeforePunctOnce(s, i) ==
    IF IsSpace(At(s, i)) /\ IsPunct(At(s, i + 1)) THEN i + 2 ELSE 0

\* \s+([,.;:!?])
SPACE_BEFORE_PUNCT_RE(s, i) ==
    LET e == RunEnd(IsSpace, s, i)
    IN  IF e > i /\ IsPunct(At(s, e)) THEN e + 1 ELSE 0

\* ([,.;:!?])([A-Za-z0-9])
SPACE_AFTER_PUNCT_RE(s, i) ==
    IF IsPunct(At(s, i)) /\ IsAlnum(At(s, i + 1)) THEN i + 2 ELSE 0

\* \.\s*\.\s*\.
ELLIPSIS_RE(s, i) ==
    LET a == RunEnd(IsSpace, s, i + 1)
        b == RunEnd(IsSpace, s, a + 1)
    IN  IF At(s, i) = DOT /\ At(s, a) = DOT /\ At(s, b) = DOT
        THEN b + 1 ELSE 0

\* (\.)([A-Za-z])
SPACE_AFTER_DOT_RE(s, i) ==
    IF At(s, i) = DOT /\ IsAlpha(At(s, i + 1)) THEN i + 2 ELSE 0

\* the TLD alternatives of DOMAIN_LIKE_RE, in the pattern's order
TLDS == <<
       <<99, 111, 109>>,   \* com
       <<110, 101, 116>>,   \* net
       <<111, 114, 103>>,   \* org
       <<105, 111>>,   \* io
       <<99, 111>>,   \* co
       <<97, 105>>,   \* ai
       <<97, 112, 112>>,   \* app
       <<100, 101, 118>>,   \* dev
       <<103, 111, 118>>,   \* gov
       <<101, 100, 117>>,   \* edu
       <<109, 101>>,   \* me
       <<103, 103>>,   \* gg
       <<116, 118>>,   \* tv
       <<102, 109>>,   \* fm
       <<104, 107>>,   \* hk
       <<116, 119>>,   \* tw
       <<106, 112>>,   \* jp
       <<115, 103>>,   \* sg
       <<107, 114>>,   \* kr
       <<99, 110>>,   \* cn
       <<117, 107>>,   \* uk
       <<100, 101>>,   \* de
       <<102, 114>>,   \* fr
       <<105, 116>>,   \* it
       <<101, 115>>,   \* es
       <<110, 108>>,   \* nl
       <<115, 101>>,   \* se
       <<110, 111>>,   \* no
       <<102, 105>>    \* fi
    >>

\* \b[A-Za-z0-9-]+\.(?:com|net|...|fi)\b, IGNORECASE
DOMAIN_LIKE_RE(s, i) ==
    LET a    == RunEnd(IsFlagChar, s, i)
        hits == {t \in 1..Len(TLDS) :
                    /\ LitAtNoCase(s, a + 1, TLDS[t])
                    /\ Boundary(s, a + 1 + Len(TLDS[t]))}
    IN  IF Boundary(s, i) /\ a > i /\ At(s, a) = DOT /\ hits # {}
        THEN a + 1 + Len(TLDS[Min(hits)])
        ELSE 0

\* (?<!\w)([A-Za-z]{2,})\.([A-Za-z]{2,})(?!\w)
PROSE_DOT_JOIN_RE(s, i) ==
    LET a == RunEnd(IsAlpha, s, i)
        e == RunEnd(IsAlpha, s, a + 1)
    IN  IF /\ ~IsWord(At(s, i - 1))
           /\ a >= i + 2
           /\ At(s, a) = DOT
           /\ e >= a + 3
           /\ ~IsWord(At(s, e))
        THEN e
        ELSE 0

(***************************************************************************)
(* protect / unprotect.  The dict `protected` is the sequence of recorded  *)
(* originals in insertion order: its k-th entry belongs to the key         *)
(* PLACEHOLDER_FMT.format(n = k - 1).                                      *)
(***************************************************************************)
RECURSIVE Digits(_)
Digits(n) == IF n < 10 THEN <<48 + n>>
             ELSE Digits(n \div 10) \o <<48 + (n % 10)>>

\* PLACEHOLDER_FMT.format(n=n)
PLACEHOLDER_FMT(n) == <<PUA>> \o Digits(n) \o <<PUA>>

\* sub(pat, s) of protect: every match of the pattern becomes the next
\* placeholder and its text is recorded
ProtectSub(M(_, _), st) ==
    LET s  == st.text
        n  == Len(st.protected)
        ms == ReMatches(M, s)
        RECURSIVE build(_, _)
        build(pos, k) ==
            IF k > Len(ms) THEN Sub(s, pos, Len(s) + 1)
            ELSE Sub(s, pos, ms[k][1]) \o PLACEHOLDER_FMT(n + k - 1)
                    \o build(ms[k][2], k + 1)
    IN  [text |-> build(1, 1),
         protected |-> st.protected \o
                [k \in 1..Len(ms) |-> Sub(s, ms[k][1], ms[k][2])]]

protect(text) ==
    LET s0 == [text |-> text, protected |-> <<>>]
        s1 == ProtectSub(BRAND_RE, s0)
        s2 == ProtectSub(URL_RE, s1)
        s3 == ProtectSub(EMAIL_RE, s2)
        s4 == ProtectSub(PATH_RE, s3)
        s5 == ProtectSub(FLAG_RE, s4)
        s6 == ProtectSub(DOT_IDENT_RE, s5)
        s7 == ProtectSub(CAMEL_RE, s6)
        s8 == ProtectSub(SNAKE_RE, s7)
    IN  ProtectSub(KEBAB_RE, s8)

\* str.replace(k, v), k not empty
StrReplace(s, k, v) ==
    LET M(t, i) == IF LitAt(t, i, k) THEN i + Len(k) ELSE 0
        R(t, i, e) == v
    IN  ReSub(M, R, s)

RECURSIVE UnprotectFrom(_, _, _)
UnprotectFrom(text, protected, k) ==
    IF k > Len(protected) THEN text
    ELSE UnprotectFrom(StrReplace(text, PLACEHOLDER_FMT(k - 1), protected[k]),
                       protected, k + 1)

unprotect(text, protected) == UnprotectFrom(text, protected, 1)

(***************************************************************************)
(* The local rewrites.                                                     *)
(***************************************************************************)
\* r"\1 \2" for PROSE_DOT_JOIN_RE
DotJoinRepl(s, i, e) ==
    LET a == RunEnd(IsAlpha, s, i)
    IN  Sub(s, i, a) \o <<SPACE>> \o Sub(s, a + 1, e)

RECURSIVE DotJoinPasses(_, _)
DotJoinPasses(text, k) ==
    IF k = 0 THEN text
    ELSE DotJoinPasses(ReSub(PROSE_DOT_JOIN_RE, DotJoinRepl, text), k - 1)

DOT_JOIN_PASSES == 8

fix_dot_joined_words(text) == DotJoinPasses(text, DOT_JOIN_PASSES)

ThreeDots(s, i, e) == <<DOT, DOT, DOT>>
LastChar(s, i, e) == <<s[e - 1]>>
SpaceBetween(s, i, e) == <<s[i], SPACE, s[i + 1]>>
OneSpace(s, i, e) == <<SPACE>>

safe_spacing_cleanup(text) ==
    LET t1 == ReSub(ELLIPSIS_RE, ThreeDots, text)
        t2 == ReSub(SPACE_BEFORE_PUNCT_RE, LastChar, t1)
        t3 == ReSub(SPACE_AFTER_PUNCT_RE, SpaceBetween, t2)
        t4 == ReSub(SPACE_AFTER_DOT_RE, SpaceBetween, t3)
    IN  ReSub(MULTISPACE_RE, OneSpace, t4)

\* (?<![A-Za-z])i(?![A-Za-z])
STANDALONE_I_RE(s, i) ==
    IF At(s, i) = 105 /\ ~IsAlpha(At(s, i - 1)) /\ ~IsAlpha(At(s, i + 1))
    THEN i + 1 ELSE 0

\* ([.!?])(\s+)([a-z])
CAP_AFTER_PUNCT_RE(s, i) ==
    LET e == RunEnd(IsSpace, s, i + 1)
    IN  IF At(s, i) \in {DOT, BANG, QMARK} /\ e > i + 1 /\ IsLower(At(s, e))
        THEN e + 1 ELSE 0

\* (^|\n\s*\n)([a-z]); ^ is the start of the text (no re.MULTILINE)
CAP_PARA_RE(s, i) ==
    LET e == RunEnd(IsSpace, s, i + 1)
    IN  IF i = 1 /\ IsLower(At(s, 1)) THEN 2
        ELSE IF /\ At(s, i) = LF
                /\ e > i + 1
                /\ s[e - 1] = LF
                /\ IsLower(At(s, e))
             THEN e + 1
             ELSE 0

CapitalI(s, i, e) == <<73>>
\* everything matched, its last character in upper case
UpperLast(s, i, e) == Sub(s, i, e - 1) \o <<Upper(s[e - 1])>>

iphone_like_caps(text) ==
    LET t1 == ReSub(STANDALONE_I_RE, CapitalI, text)
        t2 == ReSub(CAP_AFTER_PUNCT_RE, UpperLast, t1)
    IN  ReSub(CAP_PARA_RE, UpperLast, t2)

\* re.sub(r'\b' + re.escape(b) + r'\b', b, text, flags=re.IGNORECASE)
BrandAt(b, s, i) ==
    IF Boundary(s, i) /\ LitAtNoCase(s, i, b) /\ Boundary(s, i + Len(b))
    THEN i + Len(b) ELSE 0

RECURSIVE NormalizeFrom(_, _)
NormalizeFrom(text, k) ==
    IF k > Len(BRANDS) THEN text
    ELSE LET M(s, i) == BrandAt(BRANDS[k], s, i)
             R(s, i, e) == BRANDS[k]
         IN  NormalizeFrom(ReSub(M, R, text), k + 1)

normalize_brands(text) == NormalizeFrom(text, 1)

(***************************************************************************)
(* chunk_paragraphs.                                                       *)
(***************************************************************************)
\* \n\s*\n: the whitespace run is given back until a newline ends it
PARA_SPLIT_RE(s, i) ==
    LET r  == RunEnd(IsSpace, s, i + 1)
        nl == {p \in (i + 1)..(r - 1) : s[p] = LF}
    IN  IF At(s, i) = LF /\ nl # {} THEN Max(nl) + 1 ELSE 0

\* re.split(r'\n\s*\n', text): the separators are dropped
ParaSplitNoCapture(s) ==
    LET ms == ReMatches(PARA_SPLIT_RE, s)
        RECURSIVE build(_, _)
        build(pos, k) ==
            IF k > Len(ms) THEN <<Sub(s, pos, Len(s) + 1)>>
            ELSE <<Sub(s, pos, ms[k][1])>> \o build(ms[k][2], k + 1)
    IN  build(1, 1)

\* re.split(r'(\n\s*\n)', text): the texts between the separators and the
\* separators themselves, alternating
ParaSplit(s) ==
    LET ms == ReMatches(PARA_SPLIT_RE, s)
        RECURSIVE build(_, _)
        build(pos, k) ==
            IF k > Len(ms) THEN <<Sub(s, pos, Len(s) + 1)>>
            ELSE <<Sub(s, pos, ms[k][1]), Sub(s, ms[k][1], ms[k][2])>>
                    \o build(ms[k][2], k + 1)
    IN  build(1, 1)

\* the loop body with the test "len(cur) > MAX_CHUNK_CHARS and cur"
ChunkStepLate(st, p, max) ==
    IF Len(st.cur) > max /\ st.cur # <<>>
    THEN [chunks |-> Append(st.chunks, st.cur), cur |-> p]
    ELSE [chunks |-> st.chunks, cur |-> st.cur \o p]

\* one iteration of the loop over parts; st = [chunks, cur]
ChunkStep(st, p, max) ==
    IF Len(st.cur) + Len(p) > max /\ st.cur # <<>>
    THEN [chunks |-> Append(st.chunks, st.cur), cur |-> p]
    ELSE [chunks |-> st.chunks, cur |-> st.cur \o p]

RECURSIVE ChunkLoop(_, _, _, _)
ChunkLoop(st, parts, k, max) ==
    IF k > Len(parts) THEN st
    ELSE ChunkLoop(ChunkStep(st, parts[k], max), parts, k + 1, max)

chunk_paragraphs(text, max) ==
    LET st == ChunkLoop([chunks |-> <<>>, cur |-> <<>>], ParaSplit(text), 1, max)
    IN  IF st.cur # <<>> THEN Append(st.chunks, st.cur) ELSE st.chunks

(***************************************************************************)
(* apply_misspellings_only.  A match is a record                           *)
(*   [issueType, replacements, hasOffset, offset, length]                  *)
(* where replacements is the sequence of the candidates' "value" strings   *)
(* and hasOffset = FALSE stands for a match without an "offset" key, on    *)
(* which m["offset"] raises KeyError.                                      *)
(***************************************************************************)
HasMarker(s) == \E k \in 1..Len(s) : s[k] = PUA

\* the loop body without the running shift
ApplyStepNoShift(st, m) ==
    IF st.raised THEN st
    ELSE IF m.issueType # "misspelling" THEN st
    ELSE IF m.replacements = <<>> THEN st
    ELSE IF ~m.hasOffset THEN [st EXCEPT !.raised = TRUE]
    ELSE LET start == m.offset
             end == start + m.length
             replacement == m.replacements[1]
             orig == PySlice(st.text, start, end)
         IN  IF HasMarker(orig) THEN st
             ELSE IF LowerStr(orig) = LowerStr(replacement) /\ orig # replacement
                  THEN st
             ELSE [text |-> PySlice(st.text, 0, start) \o replacement
                                \o PySlice(st.text, end, Len(st.text)),
                   shift |-> st.shift + Len(replacement) - m.length,
                   raised |-> FALSE]

\* the loop body without the issueType filter
ApplyStepAnyIssue(st, m) ==
    IF st.raised THEN st
    ELSE IF m.replacements = <<>> THEN st
    ELSE IF ~m.hasOffset THEN [st EXCEPT !.raised = TRUE]
    ELSE LET start == m.offset + st.shift
             end == start + m.length
             replacement == m.replacements[1]
             orig == PySlice(st.text, start, end)
         IN  IF HasMarker(orig) THEN st
             ELSE IF LowerStr(orig) = LowerStr(replacement) /\ orig # replacement
                  THEN st
             ELSE [text |-> PySlice(st.text, 0, start) \o replacement
                                \o PySlice(st.text, end, Len(st.text)),
                   shift |-> st.shift + Len(replacement) - m.length,
                   raised |-> FALSE]

\* one iteration of the loop over matches; st = [text, shift, raised]
ApplyStep(st, m) ==
    IF st.raised THEN st
    ELSE IF m.issueType # "misspelling" THEN st
    ELSE IF m.replacements = <<>> THEN st
    ELSE IF ~m.hasOffset THEN [st EXCEPT !.raised = TRUE]
    ELSE LET start == m.offset + st.shift
             end == start + m.length
             replacement == m.replacements[1]
             orig == PySlice(st.text, start, end)
         IN  IF HasMarker(orig) THEN st
             ELSE IF LowerStr(orig) = LowerStr(replacement) /\ orig # replacement
                  THEN st
             ELSE [text |-> PySlice(st.text, 0, start) \o replacement
                                \o PySlice(st.text, end, Len(st.text)),
                   shift |-> st.shift + Len(replacement) - m.length,
                   raised |-> FALSE]

RECURSIVE ApplyLoop(_, _, _)
ApplyLoop(st, matches, k) ==
    IF k > Len(matches) THEN st
    ELSE ApplyLoop(ApplyStep(st, matches[k]), matches, k + 1)

\* [text, shift, raised]: the returned text, or raised = TRUE
apply_misspellings_only(text, matches) ==
    ApplyLoop([text |-> text, shift |-> 0, raised |-> FALSE], matches, 1)

(***************************************************************************)
(* The state of a run.  pc is the position in the function being run;      *)
(* raw, safe, protected, chunks, out_chunks, ch, out are the locals of     *)
(* main() and of the functions it calls; MAX_CHUNK_CHARS is the module     *)
(* global read from the environment; calls, resps, stderr, stdout, ret are what   *)
(* the run does to the world: the texts posted to the service, the number  *)
(* of diagnostic lines, the text written and the exit code; resps is what  *)
(* the service did for each call.                                          *)
(***************************************************************************)
VARIABLES pc, raw, MAX_CHUNK_CHARS, safe, protected, chunks, out_chunks,
          calls, resps, stderr, stdout, ret,
          parts, cur,                       \* chunk_paragraphs
          text, matches, shift, mi, orig,   \* apply_misspellings_only
          prev                              \* the text before the last rewrite

vars == <<pc, raw, MAX_CHUNK_CHARS, safe, protected, chunks, out_chunks,
          calls, resps, stderr, stdout, ret, parts, cur, text, matches, shift, mi,
          orig, prev>>

mainVars == <<raw, MAX_CHUNK_CHARS, safe, protected, chunks, out_chunks,
              calls, resps, stderr, stdout, ret>>
chunkVars == <<parts, cur>>
applyVars == <<text, matches, shift, mi, orig>>

NoRet == 0 - 1

\* all texts made of at most n of the tokens T
RECURSIVE TokenTexts(_, _)
TokenTexts(T, n) ==
    IF n = 0 THEN {<<>>}
    ELSE LET shorter == TokenTexts(T, n - 1)
         IN  shorter \cup {p \o t : p \in shorter, t \in T}

Misspelling(offset, length, value) ==
    [issueType |-> "misspelling", replacements |-> <<value>>,
     hasOffset |-> TRUE, offset |-> offset, length |-> length]

\* a match without an "offset" key
NoOffsetMatch ==
    [issueType |-> "misspelling", replacements |-> <<<<120>>>>,
     hasOffset |-> FALSE, offset |-> 0, length |-> 0]

(***************************************************************************)
(* main().                                                                 *)
(***************************************************************************)
MaxRawTokens == 3
MaxChunk == 3
MaxMainOffset == 2

\* "SpellFix", "/", "www.", "a", a blank line, "."
RawTokens == {BRANDS[1], <<SLASH>>, WWW, <<97>>, <<LF, LF>>, <<DOT>>}

RawInputs == TokenTexts(RawTokens, MaxRawTokens)

\* what call_lt can do for one chunk: raise, or return a match list
MainMatches(c) ==
    {Misspelling(o, 1, <<120>>) : o \in 0..(Min({Len(c), MaxMainOffset}) - 1)}
        \cup {NoOffsetMatch}
ServiceResponses(c) ==
    {[raises |-> TRUE, matches |-> <<>>]}
        \cup {[raises |-> FALSE, matches |-> <<>>]}
        \cup {[raises |-> FALSE, matches |-> <<m>>] : m \in MainMatches(c)}

\* raw.strip() is empty
IsBlankText(s) == \A k \in 1..Len(s) : IsSpace(s[k])

InitMain ==
    /\ pc = "start"
    /\ raw \in RawInputs
    /\ MAX_CHUNK_CHARS \in 1..MaxChunk
    /\ safe = <<>> /\ protected = <<>> /\ chunks = <<>> /\ out_chunks = <<>>
    /\ calls = <<>> /\ resps = <<>> /\ stderr = 0 /\ stdout = <<>>
    /\ ret = NoRet
    /\ parts = <<>> /\ cur = <<>>
    /\ text = <<>> /\ matches = <<>> /\ shift = 0 /\ mi = 0 /\ orig = <<>>
    /\ prev = <<>>

\* if not raw.strip(): return 0
EarlyReturn ==
    /\ pc = "start"
    /\ IsBlankText(raw)
    /\ pc' = "done"
    /\ ret' = 0
    /\ UNCHANGED <<raw, MAX_CHUNK_CHARS, safe, protected, chunks, out_chunks,
                   calls, resps, stderr, stdout, chunkVars, applyVars, prev>>

\* safe, protected = protect(raw)
Protect ==
    /\ pc = "start"
    /\ ~IsBlankText(raw)
    /\ LET r == protect(raw)
       IN  safe' = r.text /\ protected' = r.protected
    /\ pc' = "protected"
    /\ UNCHANGED <<raw, MAX_CHUNK_CHARS, chunks, out_chunks, calls, resps, stderr,
                   stdout, ret, chunkVars, applyVars, prev>>

\* safe = fix_dot_joined_words(safe)
FixDots ==
    /\ pc = "protected"
    /\ safe' = fix_dot_joined_words(safe)
    /\ pc' = "dotfixed"
    /\ UNCHANGED <<raw, MAX_CHUNK_CHARS, protected, chunks, out_chunks, calls,
                   resps, stderr, stdout, ret, chunkVars, applyVars, prev>>

\* safe = safe_spacing_cleanup(safe)
Cleanup ==
    /\ pc = "dotfixed"
    /\ safe' = safe_spacing_cleanup(safe)
    /\ pc' = "cleaned"
    /\ UNCHANGED <<raw, MAX_CHUNK_CHARS, protected, chunks, out_chunks, calls,
                   resps, stderr, stdout, ret, chunkVars, applyVars, prev>>

\* safe = iphone_like_caps(safe)
Caps ==
    /\ pc = "cleaned"
    /\ safe' = iphone_like_caps(safe)
    /\ pc' = "capped"
    /\ UNCHANGED <<raw, MAX_CHUNK_CHARS, protected, chunks, out_chunks, calls,
                   resps, stderr, stdout, ret, chunkVars, applyVars, prev>>

\* chunks = chunk_paragraphs(safe) if len(safe) > MAX_CHUNK_CHARS else [safe]
MainChunks(s, max) == IF Len(s) > max THEN chunk_paragraphs(s, max) ELSE <<s>>

Chunk ==
    /\ pc = "capped"
    /\ chunks' = MainChunks(safe, MAX_CHUNK_CHARS)
    /\ pc' = "loop"
    /\ UNCHANGED <<raw, MAX_CHUNK_CHARS, safe, protected, out_chunks, calls,
                   resps, stderr, stdout, ret, chunkVars, applyVars, prev>>

\* the loop body with a failed chunk left out of the output
LoopBodyLosesFailed(st, c, resp) ==
    LET r == apply_misspellings_only(c, resp.matches)
        failed == resp.raises \/ r.raised
    IN  [out_chunks |-> Append(st.out_chunks, IF failed THEN <<>> ELSE r.text),
         calls |-> Append(st.calls, c),
         stderr |-> IF failed THEN st.stderr + 1 ELSE st.stderr]

\* The body of "for ch in chunks" for the chunk c and what the service does
\* for it; st = [out_chunks, calls, stderr].  The except clause catches what
\* call_lt and apply_misspellings_only raise.
LoopBody(st, c, resp) ==
    LET r == apply_misspellings_only(c, resp.matches)
        failed == resp.raises \/ r.raised
    IN  [out_chunks |-> Append(st.out_chunks, IF failed THEN c ELSE r.text),
         calls |-> Append(st.calls, c),
         stderr |-> IF failed THEN st.stderr + 1 ELSE st.stderr]

\* one iteration of the loop over chunks
Iterate ==
    /\ pc = "loop"
    /\ Len(out_chunks) < Len(chunks)
    /\ LET c == chunks[Len(out_chunks) + 1]
       IN  \E resp \in ServiceResponses(c) :
              LET st == LoopBody([out_chunks |-> out_chunks, calls |-> calls,
                                  stderr |-> stderr], c, resp)
              IN  /\ out_chunks' = st.out_chunks
                  /\ calls' = st.calls
                  /\ stderr' = st.stderr
                  /\ resps' = Append(resps, resp)
    /\ UNCHANGED <<pc, raw, MAX_CHUNK_CHARS, safe, protected, chunks, stdout,
                   ret, chunkVars, applyVars, prev>>

\* out = "".join(out_chunks); out = unprotect(out, protected);
\* out = normalize_brands(out); sys.stdout.write(out); return 0
Output(outs, prot) == normalize_brands(unprotect(Concat(outs), prot))

Finish ==
    /\ pc = "loop"
    /\ Len(out_chunks) = Len(chunks)
    /\ stdout' = Output(out_chunks, protected)
    /\ ret' = 0
    /\ pc' = "done"
    /\ UNCHANGED <<raw, MAX_CHUNK_CHARS, safe, protected, chunks, out_chunks,
                   calls, resps, stderr, chunkVars, applyVars, prev>>

NextMain == EarlyReturn \/ Protect \/ FixDots \/ Cleanup \/ Caps \/ Chunk
               \/ Iterate \/ Finish

Spec == InitMain /\ [][NextMain]_vars

(***************************************************************************)
(* apply_misspellings_only, one iteration of its loop at a time.           *)
(***************************************************************************)
MaxApplyTokens == 2
MaxApplyMatches == 2
MaxApplyOffset == 2
MaxApplyLength == 1

\* "a" and the placeholder of index 0
ApplyTokens == {<<97>>, PLACEHOLDER_FMT(0)}
ApplyTexts == TokenTexts(ApplyTokens, MaxApplyTokens)

\* "A" (differs from "a" in case only) and "bb"
ApplyValues == {<<65>>, <<98, 98>>}

\* misspellings with one replacement, matches of another issue type, a
\* misspelling without replacements, a match without offset
ApplyMatches ==
    {Misspelling(o, l, v) : o \in 0..MaxApplyOffset, l \in 0..MaxApplyLength,
                            v \in ApplyValues}
      \cup {[Misspelling(o, 1, <<98, 98>>) EXCEPT !.issueType = "grammar"] :
                o \in 0..MaxApplyOffset}
      \cup {[Misspelling(0, 1, <<98, 98>>) EXCEPT !.replacements = <<>>]}
      \cup {NoOffsetMatch}

\* all sequences of at most n elements of S
RECURSIVE SeqsUpTo(_, _)
SeqsUpTo(S, n) ==
    IF n = 0 THEN {<<>>}
    ELSE LET shorter == SeqsUpTo(S, n - 1)
         IN  shorter \cup {Append(q, x) : q \in shorter, x \in S}

InitApply ==
    /\ pc = "apply_loop"
    /\ text \in ApplyTexts
    /\ orig = text
    /\ matches \in SeqsUpTo(ApplyMatches, MaxApplyMatches)
    /\ shift = 0
    /\ mi = 1
    /\ raw = <<>> /\ MAX_CHUNK_CHARS = 1
    /\ safe = <<>> /\ protected = <<>> /\ chunks = <<>> /\ out_chunks = <<>>
    /\ calls = <<>> /\ resps = <<>> /\ stderr = 0 /\ stdout = <<>>
    /\ ret = NoRet
    /\ parts = <<>> /\ cur = <<>> /\ prev = <<>>

\* one iteration of "for m in matches"
ApplyOne ==
    /\ pc = "apply_loop"
    /\ mi <= Len(matches)
    /\ LET st == ApplyStep([text |-> text, shift |-> shift, raised |-> FALSE],
                           matches[mi])
       IN  /\ text' = st.text
           /\ shift' = st.shift
           /\ pc' = IF st.raised THEN "apply_raised" ELSE "apply_loop"
           /\ mi' = IF st.raised THEN mi ELSE mi + 1
    /\ UNCHANGED <<mainVars, chunkVars, matches, orig, prev>>

\* return text
ApplyReturn ==
    /\ pc = "apply_loop"
    /\ mi > Len(matches)
    /\ pc' = "apply_done"
    /\ UNCHANGED <<mainVars, chunkVars, applyVars, prev>>

NextApply == ApplyOne \/ ApplyReturn

SpecApply == InitApply /\ [][NextApply]_vars

(***************************************************************************)
(* chunk_paragraphs, one iteration of its loop at a time; mi counts the    *)
(* parts consumed.                                                         *)
(***************************************************************************)
MaxChunkTextLen == 7

\* "a", a newline, a space
ChunkTokens == {<<97>>, <<LF>>, <<SPACE>>}
ChunkTexts == TokenTexts(ChunkTokens, MaxChunkTextLen)

InitChunk ==
    /\ pc = "chunk_start"
    /\ safe \in ChunkTexts
    /\ MAX_CHUNK_CHARS \in 1..MaxChunk
    /\ raw = <<>> /\ protected = <<>> /\ chunks = <<>> /\ out_chunks = <<>>
    /\ calls = <<>> /\ resps = <<>> /\ stderr = 0 /\ stdout = <<>>
    /\ ret = NoRet
    /\ parts = <<>> /\ cur = <<>>
    /\ text = <<>> /\ matches = <<>> /\ shift = 0 /\ mi = 0 /\ orig = <<>>
    /\ prev = <<>>

\* parts = re.split(r'(\n\s*\n)', text); chunks = []; cur = ""
ChunkSplit ==
    /\ pc = "chunk_start"
    /\ parts' = ParaSplit(safe)
    /\ chunks' = <<>>
    /\ cur' = <<>>
    /\ mi' = 0
    /\ pc' = "chunk_loop"
    /\ UNCHANGED <<raw, MAX_CHUNK_CHARS, safe, protected, out_chunks, calls,
                   resps, stderr, stdout, ret, text, matches, shift, orig,
                   prev>>

\* one iteration of "for p in parts"
ChunkPart ==
    /\ pc = "chunk_loop"
    /\ mi < Len(parts)
    /\ LET st == ChunkStep([chunks |-> chunks, cur |-> cur], parts[mi + 1],
                           MAX_CHUNK_CHARS)
       IN  chunks' = st.chunks /\ cur' = st.cur
    /\ mi' = mi + 1
    /\ UNCHANGED <<pc, raw, MAX_CHUNK_CHARS, safe, protected, out_chunks,
                   calls, resps, stderr, stdout, ret, parts, text, matches,
                   shift, orig, prev>>

\* if cur: chunks.append(cur); return chunks
ChunkReturn ==
    /\ pc = "chunk_loop"
    /\ mi = Len(parts)
    /\ chunks' = IF cur # <<>> THEN Append(chunks, cur) ELSE chunks
    /\ cur' = <<>>
    /\ pc' = "chunk_done"
    /\ UNCHANGED <<raw, MAX_CHUNK_CHARS, safe, protected, out_chunks, calls,
                   resps, stderr, stdout, ret, parts, text, matches, shift,
                   mi, orig, prev>>

NextChunk == ChunkSplit \/ ChunkPart \/ ChunkReturn

SpecChunk == InitChunk /\ [][NextChunk]_vars

(***************************************************************************)
(* fix_dot_joined_words on a text of its own.                              *)
(***************************************************************************)
MaxDotTokens == 4

\* "ab", "cd", "com", ".", " ", "1"
DotTokens == {<<97, 98>>, <<99, 100>>, <<99, 111, 109>>, <<DOT>>, <<SPACE>>,
              <<49>>}
DotTexts == TokenTexts(DotTokens, MaxDotTokens)

InitDots ==
    /\ pc = "dots_start"
    /\ safe \in DotTexts
    /\ raw = <<>> /\ MAX_CHUNK_CHARS = 1
    /\ protected = <<>> /\ chunks = <<>> /\ out_chunks = <<>>
    /\ calls = <<>> /\ resps = <<>> /\ stderr = 0 /\ stdout = <<>>
    /\ ret = NoRet
    /\ parts = <<>> /\ cur = <<>>
    /\ text = <<>> /\ matches = <<>> /\ shift = 0 /\ mi = 0 /\ orig = <<>>
    /\ prev = <<>>

DotJoin ==
    /\ pc = "dots_start"
    /\ prev' = safe
    /\ safe' = fix_dot_joined_words(safe)
    /\ pc' = "dots_done"
    /\ UNCHANGED <<raw, MAX_CHUNK_CHARS, protected, chunks, out_chunks, calls,
                   resps, stderr, stdout, ret, chunkVars, applyVars>>

NextDots == DotJoin

SpecDots == InitDots /\ [][NextDots]_vars

(***************************************************************************)
(* safe_spacing_cleanup run on a text and then on its own result; mi       *)
(* counts the runs, orig is the text given to the first and prev the text   *)
(* given to the last.                                                      *)
(***************************************************************************)
MaxSpacingLen == 4
MaxSpacingRuns == 2

\* " ", tab, newline, ".", ",", "a", "1"
SpacingTokens == {<<SPACE>>, <<TAB>>, <<LF>>, <<DOT>>, <<COMMA>>, <<97>>,
                  <<49>>}
SpacingTexts == TokenTexts(SpacingTokens, MaxSpacingLen)

InitSpacing ==
    /\ pc = "spacing"
    /\ safe \in SpacingTexts
    /\ mi = 0
    /\ raw = <<>> /\ MAX_CHUNK_CHARS = 1
    /\ protected = <<>> /\ chunks = <<>> /\ out_chunks = <<>>
    /\ calls = <<>> /\ resps = <<>> /\ stderr = 0 /\ stdout = <<>>
    /\ ret = NoRet
    /\ parts = <<>> /\ cur = <<>>
    /\ text = <<>> /\ matches = <<>> /\ shift = 0 /\ orig = <<>>
    /\ prev = <<>>

SpacingRun ==
    /\ pc = "spacing"
    /\ mi < MaxSpacingRuns
    /\ prev' = safe
    /\ safe' = safe_spacing_cleanup(safe)
    /\ orig' = IF mi = 0 THEN safe ELSE orig
    /\ mi' = mi + 1
    /\ UNCHANGED <<pc, raw, MAX_CHUNK_CHARS, protected, chunks, out_chunks,
                   calls, resps, stderr, stdout, ret, chunkVars, text,
                   matches, shift>>

NextSpacing == SpacingRun

SpecSpacing == InitSpacing /\ [][NextSpacing]_vars

(***************************************************************************)
(* Properties.                                                             *)
(***************************************************************************)
\* the text w occurs in s
Occurs(w, s) == \E i \in 1..(Len(s) - Len(w) + 1) : LitAt(s, i, w)

\* the number of places of s where w occurs
CountOcc(w, s) == Cardinality({i \in 1..(Len(s) - Len(w) + 1) : LitAt(s, i, w)})

\* matches of BRAND_RE come first in `protected`
BrandCount == Len(ReMatches(BRAND_RE, raw))

\* C1: every substring protect() matched as a URL, email, path, flag or
\* identifier (every recorded original but the brand tokens) occurs
\* character for character in the text main() writes.
ProtectedSpansSurvive ==
    (pc = "done" /\ ~IsBlankText(raw)) =>
        \A k \in (BrandCount + 1)..Len(protected) : Occurs(protected[k], stdout)

\* C2: when the input holds no U+E000 and the service returned no match,
\* no recorded original holds a placeholder (no pass matched what an
\* earlier pass had protected) and the text written holds no U+E000.
NoPlaceholderLeft ==
    (/\ pc = "done"
     /\ ~IsBlankText(raw)
     /\ ~HasMarker(raw)
     /\ \A k \in 1..Len(resps) : resps[k].matches = <<>>) =>
        /\ \A k \in 1..Len(protected) : ~HasMarker(protected[k])
        /\ ~HasMarker(stdout)

\* the service call or the match application raises for chunk c
Failed(c, resp) ==
    resp.raises \/ apply_misspellings_only(c, resp.matches).raised

\* C3: in and after the chunk loop there is one call and one output chunk
\* per chunk handled, in input order; a chunk whose call or match
\* application raised is output unchanged with one diagnostic line, every
\* other chunk is output corrected; at the end every chunk was handled, the
\* output is the chunks in order, and main() returns 0.
ChunkLoopTolerant ==
    (pc \in {"loop", "done"} /\ ~IsBlankText(raw)) =>
        /\ Len(out_chunks) <= Len(chunks)
        /\ Len(calls) = Len(out_chunks)
        /\ \A k \in 1..Len(out_chunks) :
              /\ calls[k] = chunks[k]
              /\ Failed(chunks[k], resps[k]) => out_chunks[k] = chunks[k]
              /\ ~Failed(chunks[k], resps[k]) =>
                    out_chunks[k] =
                        apply_misspellings_only(chunks[k], resps[k].matches).text
        /\ stderr = Cardinality({k \in 1..Len(out_chunks) :
                                    Failed(chunks[k], resps[k])})
        /\ pc = "done" =>
              /\ Len(out_chunks) = Len(chunks)
              /\ stdout = Output(out_chunks, protected)
              /\ ret = 0

\* a run in which a chunk failed, by the call and by the match application,
\* and a later chunk was corrected
ChunkLoopTolerantWitness ==
    /\ pc = "done"
    /\ \E i, j, k \in 1..Len(chunks) :
          /\ i < k /\ j < k
          /\ resps[i].raises
          /\ ~resps[j].raises /\ Failed(chunks[j], resps[j])
          /\ ~Failed(chunks[k], resps[k])
          /\ out_chunks[k] # chunks[k]

\* the span of match m in the original chunk
Span(s, m) == Sub(s, m.offset + 1, m.offset + m.length + 1)

\* offsets refer to the original chunk, ascend, and spans do not overlap
WellOrdered(s, ms) ==
    /\ \A k \in 1..Len(ms) :
          /\ ms[k].hasOffset
          /\ ms[k].offset >= 0
          /\ ms[k].offset + ms[k].length <= Len(s)
    /\ \A k \in 1..(Len(ms) - 1) :
          ms[k].offset + ms[k].length <= ms[k + 1].offset

\* match m of the original chunk s is one the applier applies
Applied(s, m) ==
    /\ m.issueType = "misspelling"
    /\ m.replacements # <<>>
    /\ ~HasMarker(Span(s, m))
    /\ ~(/\ LowerStr(Span(s, m)) = LowerStr(m.replacements[1])
         /\ Span(s, m) # m.replacements[1])

\* the original chunk s from position pos on, with the spans of the applied
\* matches among ms[k..n] replaced all at once
RECURSIVE Simultaneous(_, _, _, _, _)
Simultaneous(s, ms, k, n, pos) ==
    IF k > n THEN Sub(s, pos, Len(s) + 1)
    ELSE IF Applied(s, ms[k])
         THEN Sub(s, pos, ms[k].offset + 1) \o ms[k].replacements[1]
                \o Simultaneous(s, ms, k + 1, n, ms[k].offset + ms[k].length + 1)
         ELSE Simultaneous(s, ms, k + 1, n, pos)

\* the sum of len(replacement) - length over the applied matches of ms[1..n]
RECURSIVE ShiftSum(_, _, _)
ShiftSum(s, ms, n) ==
    IF n = 0 THEN 0
    ELSE ShiftSum(s, ms, n - 1)
            + (IF Applied(s, ms[n])
               THEN Len(ms[n].replacements[1]) - ms[n].length ELSE 0)

\* C4: for a well-ordered match list, after any number of iterations the
\* shift is the sum of len(replacement) - length over the matches applied so
\* far, and the text is the original chunk with their spans replaced all at
\* once; the loop does not raise.
OffsetShiftBookkeeping ==
    WellOrdered(orig, matches) =>
        /\ pc \in {"apply_loop", "apply_done"}
        /\ shift = ShiftSum(orig, matches, mi - 1)
        /\ text = Simultaneous(orig, matches, 1, mi - 1, 1)

\* two applied matches, the first changing the length, the second further on
OffsetShiftWitness ==
    /\ pc = "apply_done"
    /\ WellOrdered(orig, matches)
    /\ Len(matches) = 2
    /\ Applied(orig, matches[1]) /\ Applied(orig, matches[2])
    /\ Len(matches[1].replacements[1]) # matches[1].length
    /\ matches[2].length > 0
    /\ shift # 0

\* exclusive end of the placeholder (marker, digits, marker) that starts at
\* position p of s, or 0
PlaceholderAt(s, p) ==
    LET d == RunEnd(IsDigit, s, p + 1)
    IN  IF At(s, p) = PUA /\ d > p + 1 /\ At(s, d) = PUA THEN d + 1 ELSE 0

\* the characters s[a:b] (a slice, 0-based) share a character, marker or
\* digit, with a placeholder of s
TouchesPlaceholder(s, a, b) ==
    \E p \in 1..Len(s) :
        \E j \in (PyIndex(Len(s), a) + 1)..PyIndex(Len(s), b) :
            p <= j /\ j < PlaceholderAt(s, p)

\* C5: an iteration whose match has a span that shares a character with a
\* placeholder, a marker or an index digit, leaves the text as it is (so
\* that the placeholders of the chunk stay intact).
PlaceholderSpansSkipped ==
    [][(/\ pc = "apply_loop"
        /\ mi <= Len(matches)
        /\ matches[mi].hasOffset
        /\ TouchesPlaceholder(text, matches[mi].offset + shift,
                              matches[mi].offset + shift + matches[mi].length))
          => text' = text]_vars

\* match m is of the wrong issue type, has no replacement, or proposes a
\* change of letter case only at the place st puts it
NonQualifying(st, m) ==
    \/ m.issueType # "misspelling"
    \/ m.replacements = <<>>
    \/ /\ m.hasOffset
       /\ LET o == PySlice(st.text, m.offset + st.shift,
                           m.offset + st.shift + m.length)
          IN  LowerStr(o) = LowerStr(m.replacements[1]) /\ o # m.replacements[1]

\* the loop over ms[k..n] with the non-qualifying matches left out
RECURSIVE WithoutNonQualifying(_, _, _, _)
WithoutNonQualifying(st, ms, k, n) ==
    IF k > n THEN st
    ELSE IF NonQualifying(st, ms[k]) THEN WithoutNonQualifying(st, ms, k + 1, n)
    ELSE WithoutNonQualifying(ApplyStep(st, ms[k]), ms, k + 1, n)

\* C6: after any number of iterations, text and shift are what the loop
\* gives with the non-qualifying matches left out: each of them left text
\* and shift unchanged and did not move any later match.
NonQualifyingAreNoOps ==
    pc \in {"apply_loop", "apply_done"} =>
        [text |-> text, shift |-> shift, raised |-> FALSE]
            = WithoutNonQualifying([text |-> orig, shift |-> 0, raised |-> FALSE],
                                   matches, 1, mi - 1)

\* a non-qualifying match of each kind came before a match that was applied
NonQualifyingWitness ==
    /\ pc = "apply_done"
    /\ Len(matches) = 2
    /\ matches[1].issueType = "grammar"
    /\ matches[1].offset = 0
    /\ matches[2].offset > 0
    /\ text # orig

\* the parts not yet consumed
RestParts == Concat([k \in 1..(Len(parts) - mi) |-> parts[mi + k]])

\* C7: at every point of the loop the chunks made so far, the chunk being
\* built and the parts to come concatenate to the text, and no chunk is
\* empty; so do the chunks returned.
LosslessChunking ==
    pc \in {"chunk_loop", "chunk_done"} =>
        /\ Concat(chunks) \o cur \o RestParts = safe
        /\ \A k \in 1..Len(chunks) : chunks[k] # <<>>

\* a text cut into three chunks or more
LosslessChunkingWitness ==
    /\ pc = "chunk_done"
    /\ Len(chunks) >= 3
    /\ \E k \in 1..Len(chunks) : Len(chunks[k]) >= 2

\* the positions of s where one of the texts ss, laid end to end, ends
Ends(ss) == {Len(Concat(Sub(ss, 1, k + 1))) : k \in 1..Len(ss)}

\* what C8 says of every text but the last clause
ChunkBoundAndWhole ==
    /\ \A k \in 1..Len(chunks) :
          \/ Len(chunks[k]) <= MAX_CHUNK_CHARS
          \/ \E j \in 1..Len(parts) : chunks[k] = parts[j]
    /\ Ends(chunks) \subseteq Ends(parts)

\* C8 as stated: every chunk is within the bound or is one part that alone
\* exceeds it, every chunk ends where a part ends, and for a text within
\* the bound the chunks are [text], those of main()'s bypass.
ChunkSizeBoundAsStated ==
    pc = "chunk_done" =>
        /\ ChunkBoundAndWhole
        /\ Len(safe) <= MAX_CHUNK_CHARS => chunks = <<safe>>

\* C8, amended: the same, the last clause for a text that is not empty.
ChunkSizeBound ==
    pc = "chunk_done" =>
        /\ ChunkBoundAndWhole
        /\ (safe # <<>> /\ Len(safe) <= MAX_CHUNK_CHARS) =>
              /\ chunks = <<safe>>
              /\ chunks = MainChunks(safe, MAX_CHUNK_CHARS)

\* an oversized chunk of one part beside chunks of several parts
ChunkSizeBoundWitness ==
    /\ pc = "chunk_done"
    /\ \E k \in 1..Len(chunks) : Len(chunks[k]) > MAX_CHUNK_CHARS
    /\ \E k \in 1..Len(chunks) :
          /\ Len(chunks[k]) <= MAX_CHUNK_CHARS
          /\ \A j \in 1..Len(parts) : chunks[k] # parts[j]

\* C9: a dot-joined pair that matches DOMAIN_LIKE_RE is left as it is, and a
\* pair of alphabetic runs that does not has its period replaced by a space.
DomainException ==
    pc = "dots_done" =>
        /\ \A i \in 1..Len(prev) :
              DOMAIN_LIKE_RE(prev, i) > 0 =>
                  Occurs(Sub(prev, i, DOMAIN_LIKE_RE(prev, i)), safe)
        /\ \A i \in 1..Len(prev) :
              (PROSE_DOT_JOIN_RE(prev, i) > 0 /\ DOMAIN_LIKE_RE(prev, i) = 0) =>
                  Occurs(DotJoinRepl(prev, i, PROSE_DOT_JOIN_RE(prev, i)), safe)

\* C10: a second run of safe_spacing_cleanup changes nothing.
SpacingIdempotent == mi >= 2 => safe = prev

\* a text the first run changed
SpacingIdempotentWitness == mi = 2 /\ orig # safe /\ Len(safe) >= 3
=============================================================================
